---- MODULE Spec2Model ----
(***************************************************************************)
(* A model of proj2_nps.py: the JSON cache file new_cache.json, the three  *)
(* cached lookups built on it (make_request_with_cache, get_url_with_cache,*)
(* get_nearby_with_cache), and the scraping pipeline that uses them.       *)
(*                                                                         *)
(* A Python str is a sequence of characters; a character is a TLA+ string. *)
(* Markup and URL fragments that the program never looks inside are single *)
(* characters ("/p1", "<li>"); names whose letter case matters are spelled *)
(* letter by letter (<<"M","i">>).                                         *)
(*                                                                         *)
(* The cache file is a sequence of characters, written by json.dumps and   *)
(* read back by json.loads.  A decoded JSON value is a record              *)
(*   [j |-> "str" | "lit" | "arr" | "obj", s |-> characters, items |-> ..] *)
(* and a Python dict is an "obj" whose items are the entries [k, v] in     *)
(* insertion order, no key twice.                                          *)
(***************************************************************************)
EXTENDS Naturals, Sequences, FiniteSets, TLC

VARIABLES
    file,        \* characters of new_cache.json (<<>> while it does not exist)
    fileExists,  \* whether new_cache.json exists
    fileKind,    \* history: who wrote the file last ("json", "truncated", ...)
    written,     \* history: the dict handed to the last save_cache
    prior,       \* history: the keys the file held before the last save_cache
    loaded,      \* result of the last bare open_cache() call
    last,        \* history: the most recent call of a lookup and its outcome
    pc,          \* per process: position inside a cached lookup
    CACHE_DICT,  \* per process: the local CACHE_DICT of the running lookup
    req,         \* per process: the lookup being run
    saves,       \* history: how many save_cache calls have completed
    base,        \* history, per process: value of saves at its open_cache
    savedAt,     \* history, per process: its last save_cache: [at, base, key]
    prompt,      \* the command loop: "none" (not running), "state", "selection",
                 \* "exited" (left by break), "raised" (left by an exception)
    typed,       \* the command loop: the text the last input() returned
    sites_list,  \* the command loop: sites_list
    printed,     \* history: what the last turn of the command loop printed
    called       \* history: the lookups the last turn of the command loop called

vars == <<file, fileExists, fileKind, written, prior, loaded, last,
          pc, CACHE_DICT, req, saves, base, savedAt,
          prompt, typed, sites_list, printed, called>>
procVars == <<pc, CACHE_DICT, req, saves, base, savedAt>>
mainVars == <<prompt, typed, sites_list, printed, called>>

(***************************************************************************)
(* Bounds of the model.                                                    *)
(***************************************************************************)
MaxEntries == 2    \* entries the cache file may hold in Spec
MaxStoreLen == 2   \* entries of a store handed to save_cache in SpecStore
MaxKeep == 2       \* characters of the file an interrupted write may leave
MaxSaves == 3      \* save_cache calls in SpecProc

(***************************************************************************)
(* Python strings.                                                         *)
(***************************************************************************)
LowerLetters == <<"m", "i", "y", "s">>
UpperLetters == <<"M", "I", "Y", "S">>

LowerChar(c) ==
    IF \E n \in 1..Len(UpperLetters) : UpperLetters[n] = c
    THEN LowerLetters[CHOOSE n \in 1..Len(UpperLetters) : UpperLetters[n] = c]
    ELSE c

UpperChar(c) ==
    IF \E n \in 1..Len(LowerLetters) : LowerLetters[n] = c
    THEN UpperLetters[CHOOSE n \in 1..Len(LowerLetters) : LowerLetters[n] = c]
    ELSE c

\* str.lower()
lower(s) == [n \in 1..Len(s) |-> LowerChar(s[n])]

\* str.capitalize(): first character upper-cased, the rest lower-cased
capitalize(s) ==
    [n \in 1..Len(s) |-> IF n = 1 THEN UpperChar(s[n]) ELSE LowerChar(s[n])]

RECURSIVE StripLeft(_)
StripLeft(s) ==
    IF s # <<>> /\ Head(s) = " " THEN StripLeft(Tail(s)) ELSE s

RECURSIVE StripRight(_)
StripRight(s) ==
    IF s # <<>> /\ s[Len(s)] = " " THEN StripRight(SubSeq(s, 1, Len(s) - 1)) ELSE s

\* str.strip()
strip(s) == StripRight(StripLeft(s))

(***************************************************************************)
(* JSON values and Python dicts.                                           *)
(***************************************************************************)
JStr(s) == [j |-> "str", s |-> s, items |-> <<>>]
JLit(c) == [j |-> "lit", s |-> <<c>>, items |-> <<>>]
JArr(xs) == [j |-> "arr", s |-> <<>>, items |-> xs]
JObj(es) == [j |-> "obj", s |-> <<>>, items |-> es]
Entry(k, v) == [k |-> k, v |-> v]
EmptyDict == JObj(<<>>)

Keys(d) == {d.items[n].k : n \in 1..Len(d.items)}

\* key in dict
HasKey(d, k) == k \in Keys(d)

\* dict[key], for a key the dict holds
Get(d, k) == d.items[CHOOSE n \in 1..Len(d.items) : d.items[n].k = k].v

\* dict[key] = value: a new key goes last, an old key keeps its place
DictSet(d, k, v) ==
    IF HasKey(d, k)
    THEN JObj([n \in 1..Len(d.items) |->
                 IF d.items[n].k = k THEN Entry(k, v) ELSE d.items[n]])
    ELSE JObj(Append(d.items, Entry(k, v)))

\* dict == dict: the same keys with the same values, in any order
DictEq(d1, d2) ==
    /\ Keys(d1) = Keys(d2)
    /\ \A k \in Keys(d1) : Get(d1, k) = Get(d2, k)

(***************************************************************************)
(* json.dumps: the text of a value.  Strings are quoted, with quote and    *)
(* backslash escaped; items are separated by ", " and keys by ": ".        *)
(***************************************************************************)
RECURSIVE Escape(_)
Escape(s) ==
    IF s = <<>> THEN <<>>
    ELSE IF Head(s) \in {"\"", "\\"}
         THEN <<"\\", Head(s)>> \o Escape(Tail(s))
         ELSE <<Head(s)>> \o Escape(Tail(s))

Quoted(s) == <<"\"">> \o Escape(s) \o <<"\"">>

RECURSIVE json_dumps(_)
RECURSIVE DumpItems(_, _)
DumpItems(xs, isObj) ==
    IF xs = <<>> THEN <<>>
    ELSE (IF isObj
          THEN Quoted(Head(xs).k) \o <<":", " ">> \o json_dumps(Head(xs).v)
          ELSE json_dumps(Head(xs)))
         \o (IF Len(xs) > 1 THEN <<",", " ">> ELSE <<>>)
         \o DumpItems(Tail(xs), isObj)

json_dumps(v) ==
    CASE v.j = "str" -> Quoted(v.s)
      [] v.j = "lit" -> v.s
      [] v.j = "arr" -> <<"[">> \o DumpItems(v.items, FALSE) \o <<"]">>
      [] v.j = "obj" -> <<"{">> \o DumpItems(v.items, TRUE) \o <<"}">>

(***************************************************************************)
(* json.loads: a recursive-descent parse of the text.  A parse step gives  *)
(* [ok, v, i]: whether it succeeded, the value, and the next position.     *)
(***************************************************************************)
Literals == {"null", "true", "false", "0", "1"}
ParseFail == [ok |-> FALSE, v |-> JLit("null"), i |-> 0]
ParseOk(v, i) == [ok |-> TRUE, v |-> v, i |-> i]

At(f, i) == IF i <= Len(f) THEN f[i] ELSE "EOF"

RECURSIVE SkipWs(_, _)
SkipWs(f, i) == IF i <= Len(f) /\ f[i] = " " THEN SkipWs(f, i + 1) ELSE i

\* the characters of a string, from just after its opening quote
RECURSIVE ScanString(_, _, _)
ScanString(f, i, acc) ==
    IF i > Len(f) THEN ParseFail
    ELSE IF f[i] = "\"" THEN ParseOk(JStr(acc), i + 1)
    ELSE IF f[i] = "\\"
         THEN IF i + 1 <= Len(f) /\ f[i + 1] \in {"\"", "\\"}
              THEN ScanString(f, i + 2, Append(acc, f[i + 1]))
              ELSE ParseFail
    ELSE ScanString(f, i + 1, Append(acc, f[i]))

RECURSIVE ParseValue(_, _)
RECURSIVE ParseMembers(_, _, _)
RECURSIVE ParseElements(_, _, _)

\* the members of an object, from its first key; a repeated key keeps the last value
ParseMembers(f, i0, acc) ==
    LET i1 == SkipWs(f, i0)
        k == ScanString(f, i1 + 1, <<>>)
        i2 == SkipWs(f, k.i)
        v == ParseValue(f, i2 + 1)
        i3 == SkipWs(f, v.i)
        acc2 == DictSet(acc, k.v.s, v.v)
    IN  IF At(f, i1) # "\"" THEN ParseFail
        ELSE IF ~k.ok THEN ParseFail
        ELSE IF At(f, i2) # ":" THEN ParseFail
        ELSE IF ~v.ok THEN ParseFail
        ELSE IF At(f, i3) = "," THEN ParseMembers(f, i3 + 1, acc2)
        ELSE IF At(f, i3) = "}" THEN ParseOk(acc2, i3 + 1)
        ELSE ParseFail

\* the elements of an array, from its first element
ParseElements(f, i0, acc) ==
    LET v == ParseValue(f, i0)
        i1 == SkipWs(f, v.i)
        acc2 == Append(acc, v.v)
    IN  IF ~v.ok THEN ParseFail
        ELSE IF At(f, i1) = "," THEN ParseElements(f, i1 + 1, acc2)
        ELSE IF At(f, i1) = "]" THEN ParseOk(JArr(acc2), i1 + 1)
        ELSE ParseFail

ParseValue(f, i0) ==
    LET i == SkipWs(f, i0)
        c == At(f, i)
        j == SkipWs(f, i + 1)
    IN  CASE c = "\"" -> ScanString(f, i + 1, <<>>)
          [] c = "{" -> IF At(f, j) = "}" THEN ParseOk(EmptyDict, j + 1)
                        ELSE ParseMembers(f, j, EmptyDict)
          [] c = "[" -> IF At(f, j) = "]" THEN ParseOk(JArr(<<>>), j + 1)
                        ELSE ParseElements(f, j, <<>>)
          [] c \in Literals -> ParseOk(JLit(c), i + 1)
          [] OTHER -> ParseFail

\* json.loads(text): [exc, v]; text that is no JSON value, or has text after
\* the value, raises JSONDecodeError
json_loads(f) ==
    LET r == ParseValue(f, 1)
    IN  IF r.ok /\ SkipWs(f, r.i) = Len(f) + 1
        THEN [exc |-> "none", v |-> r.v]
        ELSE [exc |-> "JSONDecodeError", v |-> EmptyDict]

(***************************************************************************)
(* open_cache and save_cache (lines 161-176).                              *)
(***************************************************************************)
\* the try block of open_cache: open(..., 'r'), read(), json.loads()
ReadCacheFile(f, exists) ==
    IF ~exists THEN [exc |-> "FileNotFoundError", v |-> EmptyDict]
    ELSE json_loads(f)

\* a faulty variant: "except FileNotFoundError:" in place of the bare "except:"
open_cache_narrow(f, exists) ==
    LET t == ReadCacheFile(f, exists)
    IN  IF t.exc = "FileNotFoundError" THEN [exc |-> "none", v |-> EmptyDict] ELSE t

\* open_cache(): whatever the try block raises, the bare except gives {}
open_cache(f, exists) ==
    LET t == ReadCacheFile(f, exists)
    IN  IF t.exc # "none" THEN [exc |-> "none", v |-> EmptyDict] ELSE t

\* a faulty variant: open(CACHE_FILENAME, "a") in place of "w"
save_cache_append(f, cache_dict) == f \o json_dumps(cache_dict)

\* a faulty variant: the file's current entries are read again and merged before writing
save_cache_merge(f, cache_dict) ==
    LET cur == open_cache(f, TRUE).v
        Merge[n \in 0..Len(cache_dict.items)] ==
            IF n = 0 THEN cur
            ELSE DictSet(Merge[n - 1], cache_dict.items[n].k, cache_dict.items[n].v)
    IN  json_dumps(Merge[Len(cache_dict.items)])

\* save_cache(cache_dict): the new content of the file, whose old content is f;
\* open(..., "w") discards f
save_cache(f, cache_dict) == json_dumps(cache_dict)

(***************************************************************************)
(* The remote sources.  nps.gov serves an index page with the drop-down of *)
(* states, one page per state listing its parks, and one page per park;    *)
(* the MapQuest API answers a radius search around a zipcode.  A request   *)
(* can also fail, or be answered with an error page or an error object.    *)
(***************************************************************************)
baseurl == <<"https://www.nps.gov">>

\* the parks of the state: the href of the page of each, and what the page says
Parks ==
    << [href |-> <<"/p1">>, name |-> <<"Y", "s">>, category |-> <<"NP">>,
        city |-> <<"Ct">>, region |-> <<"MI">>, zipcode |-> <<"z1">>, phone |-> <<"t1">>],
       [href |-> <<"/p2">>, name |-> <<"M", "i">>, category |-> <<>>,
        city |-> <<"Ct">>, region |-> <<"MI">>, zipcode |-> <<"z2">>, phone |-> <<"t2">>] >>

IndexPageText ==
    <<"<dropdown-menu>", "<li>", "/state/mi", " ", "M", "i", " ">>

StatePageText ==
    <<" ", "<list_parks>">>
    \o <<"<li>">> \o Parks[1].href \o <<"<li>">> \o Parks[2].href \o <<" ">>

ParkPageText(p) ==
    <<"<Hero-titleContainer>", "<Hero-title>", " ">> \o p.name \o <<" ">>
    \o <<"<Hero-designation>">> \o p.category
    \o <<"<ParkFooter-contact>", "<addressLocality>">> \o p.city
    \o <<"<addressRegion>">> \o p.region
    \o <<"<postalCode>">> \o p.zipcode
    \o <<"<telephone>">> \o p.phone

\* the body of a non-success response
NotFoundText == <<"<h1 class=", "\"", "e", "\"", ">", "404">>

StateUrl == baseurl \o <<"/state/mi">>
parturl == baseurl \o <<"/index.htm">>
ParkUrls == {baseurl \o Parks[n].href : n \in 1..Len(Parks)}

PageOf(url) ==
    IF url = StateUrl THEN StatePageText
    ELSE IF url = parturl THEN IndexPageText
    ELSE IF \E n \in 1..Len(Parks) : url = baseurl \o Parks[n].href
         THEN ParkPageText(Parks[CHOOSE n \in 1..Len(Parks) : url = baseurl \o Parks[n].href])
         ELSE NotFoundText

\* requests.get(url).text: the page, an error page, or an exception
requests_get(url) ==
    { [exc |-> "none", text |-> PageOf(url)],
      [exc |-> "none", text |-> NotFoundText],
      [exc |-> "ConnectionError", text |-> <<>>] }

\* what the API answers for an origin, decoded
ApiResponse(zipcode) ==
    JObj(<<Entry(<<"searchResults">>,
                 JArr(<<JObj(<<Entry(<<"name">>, JStr(<<"near">> \o zipcode)),
                              Entry(<<"fields">>, EmptyDict)>>)>>))>>)
ApiError == JObj(<<Entry(<<"info">>, JStr(<<"error">>))>>)

(***************************************************************************)
(* BeautifulSoup, as far as the program uses it: find a marked element,    *)
(* list the marked elements in document order, take the text of one.       *)
(***************************************************************************)
Tags ==
    { "<dropdown-menu>", "<li>", "<list_parks>", "<Hero-titleContainer>",
      "<Hero-title>", "<Hero-designation>", "<ParkFooter-contact>",
      "<addressLocality>", "<addressRegion>", "<postalCode>", "<telephone>" }

\* soup.find(...) is None
Missing(text, tag) == \A n \in 1..Len(text) : text[n] # tag

\* the text from just after the first tag on
After(text, tag) ==
    SubSeq(text, (CHOOSE n \in 1..Len(text) :
                    text[n] = tag /\ \A k \in 1..(n - 1) : text[k] # tag) + 1, Len(text))

\* the text up to the next tag
RECURSIVE UpToTag(_)
UpToTag(text) ==
    IF text = <<>> \/ Head(text) \in Tags THEN <<>>
    ELSE <<Head(text)>> \o UpToTag(Tail(text))

\* soup.find(tag).text.strip()
TextOf(text, tag) == strip(UpToTag(After(text, tag)))

\* a faulty variant: the elements are listed last first
RECURSIVE find_all_reversed(_, _)
find_all_reversed(text, tag) ==
    IF Missing(text, tag) THEN <<>>
    ELSE find_all_reversed(After(text, tag), tag) \o <<UpToTag(After(text, tag))>>

\* find_all(tag): the text of each element with the tag, in document order
RECURSIVE find_all(_, _)
find_all(text, tag) ==
    IF Missing(text, tag) THEN <<>>
    ELSE <<UpToTag(After(text, tag))>> \o find_all(After(text, tag), tag)

\* build_state_url_dict (lines 57-70), from the text of the index page:
\* lower-cased, stripped state name -> baseurl + href
build_state_url_dict(text) ==
    LET states == find_all(After(text, "<dropdown-menu>"), "<li>")
        name(n) == strip(lower(Tail(states[n])))
        url(n) == baseurl \o <<Head(states[n])>>
    IN  [k \in {name(n) : n \in 1..Len(states)} |->
            url(CHOOSE n \in 1..Len(states) :
                  name(n) = k /\ \A m \in (n + 1)..Len(states) : name(m) # k)]

states_dict == build_state_url_dict(IndexPageText)

\* NationalSite(category, name, address, zipcode, phone)
NationalSite(category, name, address, zipcode, phone) ==
    [category |-> category, name |-> name, address |-> address,
     zipcode |-> zipcode, phone |-> phone]

(***************************************************************************)
(* The result of running a function of the program from a given cache      *)
(* file: the file afterwards, whether it returned or raised, what it       *)
(* returned, whether its key was in the cache, and how many times it went  *)
(* to its source (the network, the API, states_dict).                      *)
(***************************************************************************)
Null == JLit("null")

Out(f, exists, status, exc, value, hit, fetches) ==
    [file |-> f, exists |-> exists, status |-> status, exc |-> exc,
     value |-> value, hit |-> hit, fetches |-> fetches]

\* a faulty variant: the response is requested again although the url is cached
make_request_always(f, exists, url) ==
    LET d == open_cache(f, exists).v
    IN  { IF r.exc # "none"
          THEN Out(f, exists, "raised", r.exc, Null, FALSE, 1)
          ELSE LET d2 == DictSet(d, url, JStr(r.text))
               IN  Out(save_cache(f, d2), TRUE, "returned", "none",
                       Get(d2, url), FALSE, 1)
          : r \in requests_get(url) }

\* a faulty variant: the entry is stored before the request is made
make_request_store_first(f, exists, url) ==
    LET d == open_cache(f, exists).v
    IN  IF HasKey(d, url)
        THEN {Out(f, exists, "returned", "none", Get(d, url), TRUE, 0)}
        ELSE { LET d2 == DictSet(d, url, JStr(r.text))
               IN  IF r.exc # "none"
                   THEN Out(save_cache(f, d2), TRUE, "raised", r.exc, Null, FALSE, 1)
                   ELSE Out(save_cache(f, d2), TRUE, "returned", "none",
                            Get(d2, url), FALSE, 1)
               : r \in requests_get(url) }

\* a faulty variant: only the new entry is saved
make_request_save_one(f, exists, url) ==
    LET d == open_cache(f, exists).v
    IN  IF HasKey(d, url)
        THEN {Out(f, exists, "returned", "none", Get(d, url), TRUE, 0)}
        ELSE { IF r.exc # "none"
               THEN Out(f, exists, "raised", r.exc, Null, FALSE, 1)
               ELSE LET d2 == DictSet(EmptyDict, url, JStr(r.text))
                    IN  Out(save_cache(f, d2), TRUE, "returned", "none",
                            Get(d2, url), FALSE, 1)
               : r \in requests_get(url) }

\* a faulty variant: the body of a non-success response is returned but not
\* stored
make_request_skip_errors(f, exists, url) ==
    LET d == open_cache(f, exists).v
    IN  IF HasKey(d, url)
        THEN {Out(f, exists, "returned", "none", Get(d, url), TRUE, 0)}
        ELSE { IF r.exc # "none"
               THEN Out(f, exists, "raised", r.exc, Null, FALSE, 1)
               ELSE IF r.text = NotFoundText
               THEN Out(f, exists, "returned", "none", JStr(r.text), FALSE, 1)
               ELSE LET d2 == DictSet(d, url, JStr(r.text))
                    IN  Out(save_cache(f, d2), TRUE, "returned", "none",
                            Get(d2, url), FALSE, 1)
               : r \in requests_get(url) }

\* make_request_with_cache(url), lines 178-187
make_request_with_cache(f, exists, url) ==
    LET d == open_cache(f, exists).v
    IN  IF HasKey(d, url)
        THEN {Out(f, exists, "returned", "none", Get(d, url), TRUE, 0)}
        ELSE { IF r.exc # "none"
               THEN Out(f, exists, "raised", r.exc, Null, FALSE, 1)
               ELSE LET d2 == DictSet(d, url, JStr(r.text))
                    IN  Out(save_cache(f, d2), TRUE, "returned", "none",
                            Get(d2, url), FALSE, 1)
               : r \in requests_get(url) }

\* a faulty variant: the url is stored under the state as typed
get_url_key_as_typed(f, exists, dict, state) ==
    LET d == open_cache(f, exists).v
    IN  IF HasKey(d, capitalize(state))
        THEN {Out(f, exists, "returned", "none", Get(d, capitalize(state)), TRUE, 0)}
        ELSE IF state \notin DOMAIN dict
        THEN {Out(f, exists, "raised", "KeyError", Null, FALSE, 1)}
        ELSE LET d2 == DictSet(d, state, JStr(dict[state]))
             IN  {Out(save_cache(f, d2), TRUE, "returned", "none",
                      Get(d2, state), FALSE, 1)}

\* a faulty variant: a hit writes the file again, with the entry it found only
get_url_rewrite_on_hit(f, exists, dict, state) ==
    LET d == open_cache(f, exists).v
    IN  IF HasKey(d, capitalize(state))
        THEN {Out(save_cache(f, DictSet(EmptyDict, capitalize(state), Get(d, capitalize(state)))),
                  TRUE, "returned", "none", Get(d, capitalize(state)), TRUE, 0)}
        ELSE IF state \notin DOMAIN dict
        THEN {Out(f, exists, "raised", "KeyError", Null, FALSE, 1)}
        ELSE LET d2 == DictSet(d, capitalize(state), JStr(dict[state]))
             IN  {Out(save_cache(f, d2), TRUE, "returned", "none",
                      Get(d2, capitalize(state)), FALSE, 1)}

\* get_url_with_cache(states_dict, state), lines 189-200
get_url_with_cache(f, exists, dict, state) ==
    LET d == open_cache(f, exists).v
    IN  IF HasKey(d, capitalize(state))
        THEN {Out(f, exists, "returned", "none", Get(d, capitalize(state)), TRUE, 0)}
        ELSE IF state \notin DOMAIN dict
        THEN {Out(f, exists, "raised", "KeyError", Null, FALSE, 1)}
        ELSE LET d2 == DictSet(d, capitalize(state), JStr(dict[state]))
             IN  {Out(save_cache(f, d2), TRUE, "returned", "none",
                      Get(d2, capitalize(state)), FALSE, 1)}

\* get_nearby_places(site_object), lines 146-156: the decoded answer for the
\* site's zipcode, an error object, or an exception of the request or of
\* resp.json()
get_nearby_places(site_object) ==
    { [exc |-> "none", v |-> ApiResponse(site_object.zipcode)],
      [exc |-> "none", v |-> ApiError],
      [exc |-> "ConnectionError", v |-> Null],
      [exc |-> "JSONDecodeError", v |-> Null] }

\* a faulty variant: the answer is saved into an empty dict, so every entry
\* stored before it is dropped
get_nearby_evicting(f, exists, instance) ==
    LET d == open_cache(f, exists).v
    IN  IF HasKey(d, instance.name)
        THEN {Out(f, exists, "returned", "none", Get(d, instance.name), TRUE, 0)}
        ELSE { IF r.exc # "none"
               THEN Out(f, exists, "raised", r.exc, Null, FALSE, 1)
               ELSE LET d2 == DictSet(EmptyDict, instance.name, r.v)
                    IN  Out(save_cache(f, d2), TRUE, "returned", "none",
                            Get(d2, instance.name), FALSE, 1)
               : r \in get_nearby_places(instance) }

\* get_nearby_with_cache(instance), lines 202-212
get_nearby_with_cache(f, exists, instance) ==
    LET d == open_cache(f, exists).v
    IN  IF HasKey(d, instance.name)
        THEN {Out(f, exists, "returned", "none", Get(d, instance.name), TRUE, 0)}
        ELSE { IF r.exc # "none"
               THEN Out(f, exists, "raised", r.exc, Null, FALSE, 1)
               ELSE LET d2 == DictSet(d, instance.name, r.v)
                    IN  Out(save_cache(f, d2), TRUE, "returned", "none",
                            Get(d2, instance.name), FALSE, 1)
               : r \in get_nearby_places(instance) }

\* the parse of get_site_instance, lines 88-99: a missing element raises
ParseSite(text) ==
    IF \/ Missing(text, "<Hero-titleContainer>")
       \/ Missing(After(text, "<Hero-titleContainer>"), "<Hero-title>")
       \/ Missing(After(text, "<Hero-titleContainer>"), "<Hero-designation>")
       \/ Missing(text, "<ParkFooter-contact>")
       \/ \E t \in {"<addressLocality>", "<addressRegion>", "<postalCode>", "<telephone>"} :
             Missing(After(text, "<ParkFooter-contact>"), t)
    THEN [exc |-> "AttributeError", site |-> Null]
    ELSE LET header == After(text, "<Hero-titleContainer>")
             footer == After(text, "<ParkFooter-contact>")
             city == TextOf(footer, "<addressLocality>")
             state == TextOf(footer, "<addressRegion>")
         IN  [exc |-> "none",
              site |-> NationalSite(TextOf(header, "<Hero-designation>"),
                                    TextOf(header, "<Hero-title>"),
                                    city \o <<",", " ">> \o state,
                                    TextOf(footer, "<postalCode>"),
                                    TextOf(footer, "<telephone>"))]

\* get_site_instance(site_url), lines 73-101
get_site_instance(f, exists, site_url) ==
    { IF o.status = "raised" THEN o
      ELSE LET p == ParseSite(o.value.s)
           IN  IF p.exc # "none"
               THEN Out(o.file, o.exists, "raised", p.exc, Null, o.hit, o.fetches)
               ELSE Out(o.file, o.exists, "returned", "none", p.site, o.hit, o.fetches)
      : o \in make_request_with_cache(f, exists, site_url) }

\* the loop of get_sites_for_state, lines 122-129: the parks still to visit,
\* the instances made so far, and the requests sent so far
RECURSIVE SitesLoop(_, _, _, _, _)
SitesLoop(f, exists, park_list, park_instance, gets) ==
    IF park_list = <<>>
    THEN {Out(f, exists, "returned", "none", park_instance, FALSE, gets)}
    ELSE IF Head(park_list) = <<>>
    THEN {Out(f, exists, "raised", "TypeError", <<>>, FALSE, gets)}
    ELSE UNION {
           IF o.status = "raised"
           THEN {Out(o.file, o.exists, "raised", o.exc, <<>>, FALSE, gets + o.fetches)}
           ELSE SitesLoop(o.file, o.exists, Tail(park_list),
                          Append(park_instance, o.value), gets + o.fetches)
           : o \in get_site_instance(f, exists, baseurl \o <<Head(Head(park_list))>>) }

\* get_sites_for_state(state_url), lines 105-129: the state page is requested
\* with requests.get, not through the cache
get_sites_for_state(f, exists, state_url) ==
    UNION {
      IF r.exc # "none"
      THEN {Out(f, exists, "raised", r.exc, <<>>, FALSE, 1)}
      ELSE IF Missing(strip(r.text), "<list_parks>")
      THEN {Out(f, exists, "raised", "AttributeError", <<>>, FALSE, 1)}
      ELSE SitesLoop(f, exists,
                     find_all(After(strip(r.text), "<list_parks>"), "<li>"), <<>>, 1)
      : r \in requests_get(state_url) }

(***************************************************************************)
(* The initial state: no cache file, no call made, every process idle.     *)
(***************************************************************************)
Procs == {1, 2}
Nothing == [kind |-> "nothing", lines |-> <<>>]
NotLoaded == [done |-> FALSE, raised |-> FALSE, dict |-> EmptyDict]
NoCall == [op |-> "none"]
NoReq == <<>>
NoSave == [at |-> 0, base |-> 0, key |-> <<>>]

Init ==
    /\ file = <<>>
    /\ fileExists = FALSE
    /\ fileKind = "missing"
    /\ written = EmptyDict
    /\ prior = {}
    /\ loaded = NotLoaded
    /\ last = NoCall
    /\ pc = [p \in Procs |-> "idle"]
    /\ CACHE_DICT = [p \in Procs |-> EmptyDict]
    /\ req = [p \in Procs |-> NoReq]
    /\ saves = 0
    /\ base = [p \in Procs |-> 0]
    /\ savedAt = [p \in Procs |-> NoSave]
    /\ prompt = "none"
    /\ typed = <<>>
    /\ sites_list = <<>>
    /\ printed = Nothing
    /\ called = <<>>

(***************************************************************************)
(* What the environment does to the cache file: an interrupted write       *)
(* leaves the first characters of it, the file is deleted, or it is        *)
(* overwritten with text that is not JSON.                                 *)
(***************************************************************************)
Garbage ==
    { <<>>,
      <<"<html>">>,
      <<"{", "}", "x">>,
      <<"{", "\"", "a", "\"", "}">>,
      <<"[", "1", ",", "]">>,
      <<"\"", "a">> }

FileTruncate ==
    /\ fileExists
    /\ \E n \in 0..MaxKeep :
          /\ n < Len(file)
          /\ file' = SubSeq(file, 1, n)
    /\ fileKind' = "truncated"
    /\ loaded' = NotLoaded
    /\ last' = NoCall
    /\ written' = EmptyDict
    /\ prior' = {}
    /\ UNCHANGED <<fileExists, procVars, mainVars>>

FileDelete ==
    /\ fileExists
    /\ file' = <<>>
    /\ fileExists' = FALSE
    /\ fileKind' = "missing"
    /\ loaded' = NotLoaded
    /\ last' = NoCall
    /\ written' = EmptyDict
    /\ prior' = {}
    /\ UNCHANGED <<procVars, mainVars>>

FileScribble ==
    /\ \E g \in Garbage : file' = g
    /\ fileKind # "garbage"
    /\ fileExists' = TRUE
    /\ fileKind' = "garbage"
    /\ loaded' = NotLoaded
    /\ last' = NoCall
    /\ written' = EmptyDict
    /\ prior' = {}
    /\ UNCHANGED <<procVars, mainVars>>

(***************************************************************************)
(* Spec: one process calls the functions of the program, one call after    *)
(* another, while the environment may damage the file between calls.       *)
(***************************************************************************)
\* what may be typed as a state: "mi", a state of the index page, and "ys",
\* which is none, in lower case, capitalized and in upper case
StateInputs ==
    { <<"m", "i">>, <<"M", "i">>, <<"M", "I">>, <<"y", "s">>, <<"Y", "S">> }

\* the instances a caller may hold: the parks of the state, and a second
\* site that has the name of the first and another zipcode
Instances ==
    {ParseSite(ParkPageText(Parks[n])).site : n \in 1..Len(Parks)}
    \cup {NationalSite(<<>>, <<"Y", "s">>, <<"Ct", ",", " ", "WY">>, <<"z3">>, <<"t3">>)}

CacheSize(f, exists) == Len(open_cache(f, exists).v.items)

\* a call of op with arg, whose cache key is key, ends in one of outs; before
\* tells how the call just before it ended, if that was a call of op with the
\* same key and the file was left alone in between
Call(op, arg, key, outs) ==
    /\ \E o \in outs :
          /\ CacheSize(o.file, o.exists) <= MaxEntries
          /\ file' = o.file
          /\ fileExists' = o.exists
          /\ fileKind' = IF o.file = file /\ o.exists = fileExists THEN fileKind ELSE "json"
          /\ last' = [op |-> op, arg |-> arg, key |-> key, status |-> o.status,
                      exc |-> o.exc, hit |-> o.hit, fetches |-> o.fetches,
                      value |-> o.value,
                      before |-> IF last.op = op /\ last.key = key
                                 THEN last.status ELSE "other"]
    /\ UNCHANGED <<written, prior, loaded, procVars, mainVars>>

Fetch ==
    \E url \in ParkUrls :
       Call("make_request_with_cache", url, url,
            make_request_with_cache(file, fileExists, url))

ResolveStateUrl ==
    \E state \in StateInputs :
       Call("get_url_with_cache", state, capitalize(state),
            get_url_with_cache(file, fileExists, states_dict, state))

ResolveNearby ==
    \E instance \in Instances :
       Call("get_nearby_with_cache", instance, instance.name,
            get_nearby_with_cache(file, fileExists, instance))

ListSites ==
    Call("get_sites_for_state", StateUrl, StateUrl,
         get_sites_for_state(file, fileExists, StateUrl))

Next ==
    \/ Fetch
    \/ ResolveStateUrl
    \/ ResolveNearby
    \/ ListSites
    \/ FileTruncate
    \/ FileDelete

Spec == Init /\ [][Next]_vars

Lookups == {"make_request_with_cache", "get_url_with_cache", "get_nearby_with_cache"}
Cache == open_cache(file, fileExists).v

\* C1: of two consecutive calls of a cached lookup with the same key, the file
\* left alone in between and the first one returning, the second is a cache
\* hit: it goes to its source zero times, returns the value the first returned
\* and leaves the file as it is; the first went to its source once on a miss
\* and not at all on a hit.
C1_IdempotentHit ==
    [][ (/\ last.op \in Lookups
         /\ last.status = "returned"
         /\ last'.op = last.op
         /\ last'.key = last.key)
        => /\ last.fetches = (IF last.hit THEN 0 ELSE 1)
           /\ last'.status = "returned"
           /\ last'.hit
           /\ last'.fetches = 0
           /\ last'.value = last.value
           /\ file' = file ]_vars

C1_Witness ==
    /\ last.op = "get_nearby_with_cache"
    /\ last.before = "returned"
    /\ last.hit
    /\ last.fetches = 0
    /\ last.value = ApiResponse(<<"z1">>)

\* C2: once get_sites_for_state has returned for a state, the next call for the
\* same state, the file left alone in between, sends no request at all.
C2_ListingMemoized ==
    (last.op = "get_sites_for_state" /\ last.before = "returned")
      => last.fetches = 0

\* C3: get_url_with_cache returns the url of states_dict for a state whose
\* lower-cased name is a key of states_dict, in whatever letter case it is
\* given and whatever the cache holds.
C3_CaseInsensitive ==
    (last.op = "get_url_with_cache" /\ lower(last.arg) \in DOMAIN states_dict)
      => /\ last.status = "returned"
         /\ last.value = JStr(states_dict[lower(last.arg)])

\* C4: get_url_with_cache raises KeyError and leaves the file as it is for a
\* state whose lower-cased name is no key of states_dict, whatever the cache
\* holds.
C4_UnknownStateRaises ==
    [][ (/\ last'.op = "get_url_with_cache"
         /\ lower(last'.arg) \notin DOMAIN states_dict)
        => /\ last'.status = "raised"
           /\ last'.exc = "KeyError"
           /\ file' = file
           /\ fileExists' = fileExists ]_vars

\* C5: a miss of get_url_with_cache for a state that is a key of states_dict
\* returns the url states_dict gives, and leaves the file holding that url
\* under the capitalized state.
C5_MissStoresCapitalized ==
    (/\ last.op = "get_url_with_cache"
     /\ ~last.hit
     /\ last.arg \in DOMAIN states_dict)
      => /\ last.status = "returned"
         /\ last.value = JStr(states_dict[last.arg])
         /\ HasKey(Cache, capitalize(last.arg))
         /\ Get(Cache, capitalize(last.arg)) = JStr(states_dict[last.arg])

C5_Witness ==
    /\ last.op = "get_url_with_cache"
    /\ ~last.hit
    /\ last.arg = <<"m", "i">>
    /\ last.status = "returned"
    /\ Keys(Cache) = {<<"M", "i">>}

\* C8: a miss of a cached lookup that returns adds its key, and no other, to
\* the file, with the value it returns, and leaves every other entry as it was.
C8_KeyIsolation ==
    [][ (/\ last'.op \in Lookups
         /\ ~last'.hit
         /\ last'.status = "returned")
        => LET old == open_cache(file, fileExists).v
               new == open_cache(file', fileExists').v
           IN  /\ last'.key \notin Keys(old)
               /\ Keys(new) = Keys(old) \cup {last'.key}
               /\ Get(new, last'.key) = last'.value
               /\ \A k \in Keys(old) : Get(new, k) = Get(old, k) ]_vars

C8_Witness ==
    /\ last.op = "make_request_with_cache"
    /\ ~last.hit
    /\ last.status = "returned"
    /\ Keys(Cache) = {<<"M", "i">>, last.key}
    /\ Get(Cache, <<"M", "i">>) = JStr(StateUrl)
    /\ Get(Cache, last.key) = JStr(PageOf(last.key))

\* C9: a miss of make_request_with_cache or get_nearby_with_cache whose request
\* (or whose decoding) raises writes nothing: the file is as before and has no
\* entry for the key; and the next call with that key goes to the network again.
C9_FailedFetchNotCached ==
    [][ /\ (/\ last'.op \in {"make_request_with_cache", "get_nearby_with_cache"}
            /\ last'.status = "raised")
           => /\ file' = file
              /\ fileExists' = fileExists
              /\ ~HasKey(open_cache(file', fileExists').v, last'.key)
        /\ (/\ last.op \in {"make_request_with_cache", "get_nearby_with_cache"}
            /\ last.status = "raised"
            /\ last'.op = last.op
            /\ last'.key = last.key)
           => /\ ~last'.hit
              /\ last'.fetches = 1 ]_vars

C9_Witness ==
    /\ last.op = "get_nearby_with_cache"
    /\ last.before = "raised"
    /\ last.exc = "JSONDecodeError"
    /\ last.fetches = 1
    /\ Keys(Cache) = {baseurl \o <<"/p1">>}

\* C11: no call of the program removes an entry of the cache file or changes
\* its value: whatever the call (a hit, a miss, a raise, or the listing of a
\* state with its fetches), it leaves the file as it is, or every key the file
\* held before the call is still held after it with the same value, so the
\* set of keys only grows.
C11_NoEviction ==
    [][ last'.op # "none"
        => \/ file' = file /\ fileExists' = fileExists
           \/ LET old == open_cache(file, fileExists).v
                  new == open_cache(file', fileExists').v
              IN  \A k \in Keys(old) : HasKey(new, k) /\ Get(new, k) = Get(old, k) ]_vars

C11_Witness ==
    /\ last.op = "get_nearby_with_cache"
    /\ ~last.hit
    /\ last.status = "returned"
    /\ Keys(Cache) = {baseurl \o <<"/p1">>, <<"Y", "s">>}
    /\ Get(Cache, baseurl \o <<"/p1">>) = JStr(NotFoundText)
    /\ Get(Cache, <<"Y", "s">>) = ApiResponse(<<"z3">>)

\* C12: the keys of the three lookups never collide, so a lookup that returns
\* returns a value of its own kind: get_url_with_cache a url of states_dict,
\* make_request_with_cache a body that a request for its url answers, and
\* get_nearby_with_cache an answer of the API for some site.
C12_NamespacesDisjoint ==
    (last.op \in Lookups /\ last.status = "returned")
      => IF last.op = "get_url_with_cache"
         THEN last.value \in {JStr(states_dict[k]) : k \in DOMAIN states_dict}
         ELSE IF last.op = "make_request_with_cache"
         THEN last.value \in {JStr(r.text) : r \in {q \in requests_get(last.key) : q.exc = "none"}}
         ELSE \E i \in Instances :
                 last.value \in {r.v : r \in {q \in get_nearby_places(i) : q.exc = "none"}}

\* C13: make_request_with_cache does not look at the status of a response: a
\* miss answered with the body of a non-success response returns that body and
\* leaves it in the file under the url; and whenever the file holds such a body
\* under a url, a call for that url, however many calls lie in between, is a
\* hit that returns the body, sends no request and leaves the file as it is.
C13_ErrorBodyCached ==
    [][ last'.op = "make_request_with_cache"
        => /\ (/\ ~last'.hit
               /\ last'.status = "returned"
               /\ last'.value = JStr(NotFoundText))
              => LET new == open_cache(file', fileExists').v
                 IN  /\ HasKey(new, last'.key)
                     /\ Get(new, last'.key) = JStr(NotFoundText)
           /\ LET old == open_cache(file, fileExists).v
              IN  (HasKey(old, last'.key) /\ Get(old, last'.key) = JStr(NotFoundText))
                    => /\ last'.status = "returned"
                       /\ last'.hit
                       /\ last'.fetches = 0
                       /\ last'.value = JStr(NotFoundText)
                       /\ file' = file
                       /\ fileExists' = fileExists ]_vars

\* a hit on an error body that was stored before the call just before this one
C13_Witness ==
    /\ last.op = "make_request_with_cache"
    /\ last.hit
    /\ last.fetches = 0
    /\ last.value = JStr(NotFoundText)
    /\ last.before = "other"
    /\ Cardinality(Keys(Cache)) = 2

\* C14: a call writes the file only when it adds an entry: a hit leaves the
\* file as it is, and a call after which the file differs has added a key the
\* file did not hold; for a cached lookup that key is its own, so a lookup
\* whose key the file holds already leaves the content unchanged.
C14_HitLeavesFile ==
    [][ last'.op # "none"
        => /\ last'.hit => (file' = file /\ fileExists' = fileExists)
           /\ (file' # file \/ fileExists' # fileExists)
              => LET old == open_cache(file, fileExists).v
                     new == open_cache(file', fileExists').v
                 IN  /\ \E k \in Keys(new) : ~HasKey(old, k)
                     /\ last'.op \in Lookups
                        => (~HasKey(old, last'.key) /\ HasKey(new, last'.key)) ]_vars

\* a hit on one of two entries, stored before the call just before this one
C14_Witness ==
    /\ last.op = "get_url_with_cache"
    /\ last.hit
    /\ last.before = "other"
    /\ last.key = <<"M", "i">>
    /\ last.value = JStr(StateUrl)
    /\ Cardinality(Keys(Cache)) = 2

\* C15: while the file holds nothing but what get_nearby_with_cache stored
\* (answers of the API, which are objects), the value get_nearby_with_cache
\* returns for a site is an answer of the API to a request whose origin is the
\* zipcode of that site, also when another site has the same name.
C15_NearbyFromOwnZipcode ==
    (/\ last.op = "get_nearby_with_cache"
     /\ last.status = "returned"
     /\ \A k \in Keys(Cache) : Get(Cache, k).j = "obj")
      => last.value \in {r.v : r \in {q \in get_nearby_places(last.arg) : q.exc = "none"}}

(***************************************************************************)
(* SpecStore: save_cache and open_cache called on their own, with stores   *)
(* drawn from a bounded set of dicts.                                      *)
(***************************************************************************)
StoreKeys == { <<>>, <<"M", "i">>, <<"k", "\"">> }
StoreValues ==
    { JStr(<<"{", "\"", "\\", ",", " ">>),
      JObj(<<Entry(<<"searchResults">>, JArr(<<JLit("null"), JStr(<<>>)>>))>>) }
StoreEntries == {Entry(k, v) : k \in StoreKeys, v \in StoreValues}
Stores ==
    { JObj(es) : es \in
        { s \in UNION {[1..n -> StoreEntries] : n \in 0..MaxStoreLen} :
            \A a, b \in 1..Len(s) : a # b => s[a].k # s[b].k } }

\* save_cache(d)
StoreSave ==
    /\ \E d \in Stores :
          /\ file' = save_cache(file, d)
          /\ written' = d
    /\ prior' = Keys(open_cache(file, fileExists).v)
    /\ fileExists' = TRUE
    /\ fileKind' = "json"
    /\ loaded' = NotLoaded
    /\ UNCHANGED <<last, procVars, mainVars>>

\* open_cache()
StoreLoad ==
    /\ ~loaded.done
    /\ LET r == open_cache(file, fileExists)
       IN  loaded' = [done |-> TRUE, raised |-> r.exc # "none", dict |-> r.v]
    /\ UNCHANGED <<file, fileExists, fileKind, written, prior, last, procVars, mainVars>>

\* an interrupted write loses the end of the text
FileLoseTail ==
    /\ fileExists
    /\ fileKind = "json"
    /\ \E n \in 1..MaxKeep :
          /\ n <= Len(file)
          /\ file' = SubSeq(file, 1, Len(file) - n)
    /\ fileKind' = "truncated"
    /\ loaded' = NotLoaded
    /\ last' = NoCall
    /\ written' = EmptyDict
    /\ prior' = {}
    /\ UNCHANGED <<fileExists, procVars, mainVars>>

NextStore ==
    \/ StoreSave
    \/ StoreLoad
    \/ FileTruncate
    \/ FileLoseTail
    \/ FileDelete
    \/ FileScribble

SpecStore == Init /\ [][NextStore]_vars

\* C6: open_cache never raises; it gives {} for a file that is missing, cut
\* short or not JSON, and for a file json.dumps wrote it gives the dict whose
\* text the file is.
C6_LoadNeverRaises ==
    loaded.done =>
      /\ ~loaded.raised
      /\ (fileKind \in {"missing", "truncated", "garbage"} => loaded.dict = EmptyDict)
      /\ (fileKind = "json" => json_dumps(loaded.dict) = file)

C6_Witness ==
    /\ loaded.done
    /\ fileKind = "truncated"
    /\ Len(file) > MaxKeep
    /\ loaded.dict = EmptyDict

\* C7: open_cache after save_cache(store) gives a dict equal to store, whatever
\* the file held before; no key of the earlier content survives unless store
\* has it.
C7_RoundTrip ==
    (loaded.done /\ fileKind = "json") =>
      /\ ~loaded.raised
      /\ DictEq(loaded.dict, written)
      /\ (prior \ Keys(written)) \cap Keys(loaded.dict) = {}

C7_Witness ==
    /\ loaded.done
    /\ fileKind = "json"
    /\ Len(written.items) = 2
    /\ prior \ Keys(written) # {}

(***************************************************************************)
(* SpecProc: two processes run make_request_with_cache on the same file,   *)
(* line by line: open_cache (179), the test and the request (180-185),     *)
(* save_cache (186), return (187).  Each save_cache is one step.           *)
(***************************************************************************)
fileVars == <<fileKind, written, prior, loaded, last>>

\* make_request_with_cache(url) is called
Begin(p) ==
    /\ pc[p] = "idle"
    /\ \E url \in ParkUrls : req' = [req EXCEPT ![p] = url]
    /\ pc' = [pc EXCEPT ![p] = "open"]
    /\ UNCHANGED <<file, fileExists, fileVars, mainVars, CACHE_DICT, saves, base, savedAt>>

\* line 179: CACHE_DICT = open_cache()
Open(p) ==
    /\ pc[p] = "open"
    /\ CACHE_DICT' = [CACHE_DICT EXCEPT ![p] = open_cache(file, fileExists).v]
    /\ base' = [base EXCEPT ![p] = saves]
    /\ pc' = [pc EXCEPT ![p] = "test"]
    /\ UNCHANGED <<file, fileExists, fileVars, mainVars, req, saves, savedAt>>

\* lines 180-182: the url is in CACHE_DICT
Hit(p) ==
    /\ pc[p] = "test"
    /\ HasKey(CACHE_DICT[p], req[p])
    /\ pc' = [pc EXCEPT ![p] = "return"]
    /\ UNCHANGED <<file, fileExists, fileVars, mainVars, CACHE_DICT, req, saves, base, savedAt>>

\* lines 183-185: it is not; the request raises, or its text is stored in CACHE_DICT
Request(p) ==
    /\ pc[p] = "test"
    /\ ~HasKey(CACHE_DICT[p], req[p])
    /\ \E r \in requests_get(req[p]) :
          \/ /\ r.exc # "none"
             /\ pc' = [pc EXCEPT ![p] = "idle"]
             /\ UNCHANGED CACHE_DICT
          \/ /\ r.exc = "none"
             /\ CACHE_DICT' = [CACHE_DICT EXCEPT ![p] = DictSet(@, req[p], JStr(r.text))]
             /\ pc' = [pc EXCEPT ![p] = "save"]
    /\ UNCHANGED <<file, fileExists, fileVars, mainVars, req, saves, base, savedAt>>

\* line 186: save_cache(CACHE_DICT)
Save(p) ==
    /\ pc[p] = "save"
    /\ saves < MaxSaves
    /\ file' = save_cache(file, CACHE_DICT[p])
    /\ fileExists' = TRUE
    /\ saves' = saves + 1
    /\ savedAt' = [savedAt EXCEPT ![p] = [at |-> saves + 1, base |-> base[p], key |-> req[p]]]
    /\ pc' = [pc EXCEPT ![p] = "return"]
    /\ UNCHANGED <<fileVars, mainVars, CACHE_DICT, req, base>>

\* line 187: return CACHE_DICT[url]
Return(p) ==
    /\ pc[p] = "return"
    /\ pc' = [pc EXCEPT ![p] = "idle"]
    /\ UNCHANGED <<file, fileExists, fileVars, mainVars, CACHE_DICT, req, saves, base, savedAt>>

NextProc ==
    \E p \in Procs :
       \/ Begin(p)
       \/ Open(p)
       \/ Hit(p)
       \/ Request(p)
       \/ Save(p)
       \/ Return(p)

SpecProc == Init /\ [][NextProc]_vars

\* the last two save_cache calls were p's and then q's, for different keys
LastTwoSaves(p, q) ==
    /\ p # q
    /\ savedAt[p].at >= 1
    /\ savedAt[q].at = savedAt[p].at + 1
    /\ savedAt[q].at = saves
    /\ savedAt[p].key # savedAt[q].key

\* both processes read the file before either wrote it
Overlapping(p, q) ==
    /\ LastTwoSaves(p, q)
    /\ savedAt[p].base = savedAt[p].at - 1
    /\ savedAt[q].base = savedAt[p].at - 1

\* q read the file after p had written it
OneAfterTheOther(p, q) ==
    /\ LastTwoSaves(p, q)
    /\ savedAt[q].base = savedAt[p].at

\* C10: when two processes each add a key and both read the file before either
\* writes it, the file ends with the later writer's key and without the earlier
\* writer's; when the second reads after the first has written, it ends with both.
C10_LostUpdate ==
    \A p, q \in Procs :
       /\ Overlapping(p, q)
            => /\ ~HasKey(Cache, savedAt[p].key)
               /\ HasKey(Cache, savedAt[q].key)
       /\ OneAfterTheOther(p, q)
            => /\ HasKey(Cache, savedAt[p].key)
               /\ HasKey(Cache, savedAt[q].key)

C10_Witness ==
    \E p, q \in Procs :
       /\ Overlapping(p, q)
       /\ Keys(Cache) = {savedAt[q].key}
       /\ pc[p] = "idle"
       /\ pc[q] = "idle"

(***************************************************************************)
(* SpecMain: the command loop of the script (lines 216-283).  The program  *)
(* is started, asks for a state, lists its sites, asks for a selection and *)
(* prints the places near the selected site; one step is one input() with  *)
(* everything the loop does until the next input(), the break, or the      *)
(* exception that ends the process.  A process that has ended may be       *)
(* started again, on the cache file the earlier runs left, and the file    *)
(* may be deleted between two steps.                                       *)
(***************************************************************************)
Exit == <<"e", "x", "i", "t">>
Back == <<"b", "a", "c", "k">>

\* the characters str.isdigit accepts: the decimal digits and, of the other
\* digits of Unicode, the superscript two (written "^2")
Decimal == <<"0", "1", "2", "3", "4", "5", "6", "7", "8", "9">>
DecimalDigits == {Decimal[n] : n \in 1..Len(Decimal)}
OtherDigits == {"^2"}

\* str.isdigit()
isdigit(s) ==
    s # <<>> /\ \A n \in 1..Len(s) : s[n] \in DecimalDigits \cup OtherDigits

\* the value of a text of decimal digits
RECURSIVE DecimalValue(_)
DecimalValue(s) ==
    IF s = <<>> THEN 0
    ELSE 10 * DecimalValue(SubSeq(s, 1, Len(s) - 1))
         + (CHOOSE d \in 0..9 : Decimal[d + 1] = s[Len(s)])

\* int(s) for a text isdigit accepts: a digit that is not decimal raises
int(s) ==
    IF \A n \in 1..Len(s) : s[n] \in DecimalDigits
    THEN [exc |-> "none", v |-> DecimalValue(s)]
    ELSE [exc |-> "ValueError", v |-> 0]

\* str(n) of a natural number, as an f-string formats it
RECURSIVE str(_)
str(n) ==
    IF n < 10 THEN <<Decimal[n + 1]>>
    ELSE str(n \div 10) \o <<Decimal[(n % 10) + 1]>>

\* NationalSite.info(), line 40
info(site) ==
    site.name \o <<" ", "(">> \o site.category \o <<")", ":", " ">>
    \o site.address \o <<" ">> \o site.zipcode

\* what a turn of the loop prints: nothing, an error message, the list of
\* the sites, the places near a site, or the traceback of an exception
ErrorPrinted(message) == [kind |-> "error", lines |-> <<message>>]
Traceback(exc) == [kind |-> "traceback", lines |-> <<<<exc>>>>]

\* lines 228-233
SitesPrinted(state, sites) ==
    [kind |-> "sites",
     lines |-> <<<<"List of national sites in ">> \o lower(state)>>
               \o [n \in 1..Len(sites) |-> <<"[">> \o str(n) \o <<"]", " ">> \o info(sites[n])]]

\* v[key] for a decoded JSON value v and a str key
Subscript(v, key) ==
    IF v.j # "obj" THEN [exc |-> "TypeError", v |-> Null]
    ELSE IF ~HasKey(v, key) THEN [exc |-> "KeyError", v |-> Null]
    ELSE [exc |-> "none", v |-> Get(v, key)]

\* lines 254-271: the field of a place, or the default when it is absent or ""
FieldOr(fields, key, default) ==
    IF ~HasKey(fields, key) THEN default
    ELSE IF Get(fields, key) = JStr(<<>>) THEN default
    ELSE Get(fields, key).s

\* lines 252-275 for one place: its line, or the exception it raises
PlaceLine(place) ==
    IF Subscript(place, <<"name">>).exc # "none"
    THEN [exc |-> Subscript(place, <<"name">>).exc, line |-> <<>>]
    ELSE IF Subscript(place, <<"fields">>).exc # "none"
    THEN [exc |-> Subscript(place, <<"fields">>).exc, line |-> <<>>]
    ELSE IF Subscript(place, <<"fields">>).v.j # "obj"
    THEN [exc |-> "TypeError", line |-> <<>>]
    ELSE LET name == Subscript(place, <<"name">>).v.s
             fields == Subscript(place, <<"fields">>).v
         IN  [exc |-> "none",
              line |-> <<"-", " ">> \o name \o <<" ", "(">>
                       \o FieldOr(fields, <<"group_sic_code_name_ext">>, <<"no category">>)
                       \o <<")", ":", " ">>
                       \o FieldOr(fields, <<"address">>, <<"no address">>)
                       \o <<",", " ">>
                       \o FieldOr(fields, <<"city">>, <<"no city">>)]

\* lines 250-275: the heading and a line for each place of result, or the
\* first exception raised on the way
PlacesPrinted(site, result) ==
    IF result.j # "arr" THEN Traceback("TypeError")
    ELSE IF \E n \in 1..Len(result.items) : PlaceLine(result.items[n]).exc # "none"
    THEN Traceback(PlaceLine(result.items[
             CHOOSE n \in 1..Len(result.items) :
                /\ PlaceLine(result.items[n]).exc # "none"
                /\ \A m \in 1..(n - 1) : PlaceLine(result.items[m]).exc = "none"]).exc)
    ELSE [kind |-> "places",
          lines |-> <<<<"Places near ">> \o site.name>>
                    \o [n \in 1..Len(result.items) |-> PlaceLine(result.items[n]).line]]

\* the outcome of a turn of the loop: the file, where the loop is next, the
\* sites_list, what was printed and which lookups were called
MainOut(f, exists, at, sites, out, calls) ==
    [file |-> f, exists |-> exists, prompt |-> at, sites_list |-> sites,
     printed |-> out, called |-> calls]

Raised(f, exists, exc, calls) ==
    MainOut(f, exists, "raised", <<>>, Traceback(exc), calls)

CallOf(op, arg) == [op |-> op, arg |-> arg]

\* line 217, states_dict = build_state_url_dict(), lines 57-63: the index
\* page comes through the cache; a page without the menu raises
StartStep(f, exists) ==
    { IF o.status = "raised"
      THEN Raised(o.file, o.exists, o.exc, <<>>)
      ELSE IF Missing(o.value.s, "<dropdown-menu>")
      THEN Raised(o.file, o.exists, "AttributeError", <<>>)
      ELSE MainOut(o.file, o.exists, "state", <<>>, Nothing, <<>>)
      : o \in make_request_with_cache(f, exists, parturl) }

\* lines 219-236: a turn at the state prompt
StatePromptStep(f, exists, state) ==
    IF state = Exit
    THEN {MainOut(f, exists, "exited", <<>>, Nothing, <<>>)}
    ELSE IF lower(state) \in DOMAIN states_dict
    THEN UNION {
           LET c1 == CallOf("get_url_with_cache", state)
               c2 == CallOf("get_sites_for_state", o1.value)
           IN  IF o1.status = "raised"
               THEN {Raised(o1.file, o1.exists, o1.exc, <<c1>>)}
               ELSE IF o1.value.j # "str"
               THEN {Raised(o1.file, o1.exists, "MissingSchema", <<c1, c2>>)}
               ELSE { IF o2.status = "raised"
                      THEN Raised(o2.file, o2.exists, o2.exc, <<c1, c2>>)
                      ELSE MainOut(o2.file, o2.exists, "selection", o2.value,
                                   SitesPrinted(state, o2.value), <<c1, c2>>)
                      : o2 \in get_sites_for_state(o1.file, o1.exists, o1.value.s) }
           : o1 \in get_url_with_cache(f, exists, states_dict, state) }
    ELSE {MainOut(f, exists, "state", <<>>,
                  ErrorPrinted(<<"[Error]: Enter proper state name">>), <<>>)}

\* a faulty variant: exit at the selection prompt goes back to the state prompt
AfterSelectionNeverExits(second_input) == "state"

\* lines 241-244 and 282-283: where exit or back at the selection prompt leads
AfterSelection(second_input) ==
    IF second_input = Exit THEN "exited" ELSE "state"

\* lines 247-275: the nearby places of the selected site are looked up and
\* printed
SelectStep(f, exists, sites, site) ==
    { LET c == CallOf("get_nearby_with_cache", site)
      IN  IF o.status = "raised"
          THEN Raised(o.file, o.exists, o.exc, <<c>>)
          ELSE IF Subscript(o.value, <<"searchResults">>).exc # "none"
          THEN Raised(o.file, o.exists, Subscript(o.value, <<"searchResults">>).exc, <<c>>)
          ELSE LET out == PlacesPrinted(site, Subscript(o.value, <<"searchResults">>).v)
               IN  IF out.kind = "traceback"
                   THEN MainOut(o.file, o.exists, "raised", <<>>, out, <<c>>)
                   ELSE MainOut(o.file, o.exists, "selection", sites, out, <<c>>)
      : o \in get_nearby_with_cache(f, exists, site) }

\* lines 239-283: a turn at the selection prompt
SelectionPromptStep(f, exists, sites, number) ==
    IF number = Exit \/ number = Back
    THEN {MainOut(f, exists, AfterSelection(number), sites, Nothing, <<>>)}
    ELSE IF ~isdigit(number)
    THEN {MainOut(f, exists, "selection", sites,
                  ErrorPrinted(<<"[Error] Invalid input">>), <<>>)}
    ELSE IF int(number).exc # "none"
    THEN {Raised(f, exists, int(number).exc, <<>>)}
    ELSE IF 0 < int(number).v /\ int(number).v < Len(sites) + 1
    THEN SelectStep(f, exists, sites, sites[int(number).v])
    ELSE {MainOut(f, exists, "selection", sites,
                  ErrorPrinted(<<"[Error] Invalid input">>), <<>>)}

\* what may be typed at the state prompt and at the selection prompt
StateTyped == StateInputs \cup {Exit}
NumberTyped ==
    { Exit, Back, <<>>, <<"x">>, <<"0">>, <<"1">>, <<"2">>, <<"3">>,
      <<"0", "1">>, <<"^2">> }

Turn(text, outs) ==
    /\ \E o \in outs :
          /\ file' = o.file
          /\ fileExists' = o.exists
          /\ fileKind' = IF o.file = file /\ o.exists = fileExists THEN fileKind ELSE "json"
          /\ prompt' = o.prompt
          /\ sites_list' = o.sites_list
          /\ printed' = o.printed
          /\ called' = o.called
    /\ typed' = text
    /\ UNCHANGED <<written, prior, loaded, last, procVars>>

\* python proj2_nps.py
Main ==
    /\ prompt \in {"none", "exited", "raised"}
    /\ Turn(<<>>, StartStep(file, fileExists))

StatePrompt ==
    /\ prompt = "state"
    /\ \E state \in StateTyped :
          Turn(state, StatePromptStep(file, fileExists, state))

SelectionPrompt ==
    /\ prompt = "selection"
    /\ \E number \in NumberTyped :
          Turn(number, SelectionPromptStep(file, fileExists, sites_list, number))

NextMain ==
    \/ Main
    \/ StatePrompt
    \/ SelectionPrompt
    \/ FileDelete

SpecMain == Init /\ [][NextMain]_vars

\* a step of the command loop taken at prompt p (a deletion of the file is
\* the only other step, and no turn of the loop deletes the file)
TurnAt(p) == prompt = p /\ (fileExists => fileExists')

\* the text is a number in 1..n, written in decimal digits
IsSelection(text, n) ==
    /\ text # <<>>
    /\ \A k \in 1..Len(text) : text[k] \in DecimalDigits
    /\ DecimalValue(text) \in 1..n

\* the turn printed message, called no lookup, left the file as it was and
\* ends at the prompt it began at
Recovered(message) ==
    /\ prompt' = prompt
    /\ printed' = ErrorPrinted(message)
    /\ called' = <<>>
    /\ file' = file
    /\ fileExists' = fileExists

\* C16: a state name whose lower-cased form is no key of states_dict, typed at
\* the state prompt, and a text that is not a number in 1..len(sites_list),
\* typed at the selection prompt (exit and back aside), are answered with the
\* error message and the same prompt: no lookup is called, the file and the
\* sites_list stay as they are, and no exception ends the loop.
C16_InputErrorsRecovered ==
    [][ /\ (/\ TurnAt("state")
            /\ typed' # Exit
            /\ lower(typed') \notin DOMAIN states_dict)
           => Recovered(<<"[Error]: Enter proper state name">>)
        /\ (/\ TurnAt("selection")
            /\ typed' \notin {Exit, Back}
            /\ ~IsSelection(typed', Len(sites_list)))
           => /\ Recovered(<<"[Error] Invalid input">>)
              /\ sites_list' = sites_list ]_vars

\* exit ends the process at either prompt, back leads from the selection
\* prompt to the state prompt, and the selection prompt is entered only by a
\* turn at the state prompt whose text, lower-cased, is a key of states_dict
ExitBackAndEntry ==
    /\ ((TurnAt("state") \/ TurnAt("selection")) /\ typed' = Exit)
       => prompt' = "exited"
    /\ (TurnAt("selection") /\ typed' = Back)
       => prompt' = "state"
    /\ (prompt # "selection" /\ prompt' = "selection")
       => (TurnAt("state") /\ lower(typed') \in DOMAIN states_dict)

\* C17 as claimed: exit at the state prompt or at the selection prompt ends
\* the process; back at the selection prompt leads to the state prompt; a
\* number k in 1..len(sites_list) at the selection prompt prints the places
\* near a site and leaves the loop at the selection prompt with the same
\* sites_list; the selection prompt is reached only after a valid state name.
C17_Navigation ==
    [][ /\ ExitBackAndEntry
        /\ (TurnAt("selection") /\ IsSelection(typed', Len(sites_list)))
           => /\ prompt' = "selection"
              /\ printed'.kind = "places"
              /\ sites_list' = sites_list ]_vars

\* C17, amended: as above, but a number k in 1..len(sites_list) prints the
\* places near the k-th site and stays at the selection prompt with the same
\* sites_list only when the lookup for the site returns an object whose
\* searchResults is a list of places with name and fields; when the lookup
\* raises or returns anything else the exception ends the process.
C17_NavigationUnlessRaised ==
    [][ /\ ExitBackAndEntry
        /\ (TurnAt("selection") /\ IsSelection(typed', Len(sites_list)))
           => LET site == sites_list[DecimalValue(typed')]
                  new == open_cache(file', fileExists').v
                  answered == HasKey(new, site.name)
                  result == Subscript(Get(new, site.name), <<"searchResults">>)
              IN  IF /\ answered
                     /\ result.exc = "none"
                     /\ PlacesPrinted(site, result.v).kind = "places"
                  THEN /\ prompt' = "selection"
                       /\ printed' = PlacesPrinted(site, result.v)
                       /\ sites_list' = sites_list
                  ELSE /\ prompt' = "raised"
                       /\ printed'.kind = "traceback" ]_vars

\* the places near the first site have been printed and the loop is at the
\* selection prompt again
C17_Witness ==
    /\ prompt = "selection"
    /\ typed = <<"1">>
    /\ printed.kind = "places"
    /\ printed.lines[1] = <<"Places near ", "Y", "s">>
    /\ Len(sites_list) = 2

\* the sites of the state page, one for each link and in the order of the
\* links in the page, each with the fields its own page shows
SitesInDocumentOrder ==
    [n \in 1..Len(Parks) |->
        NationalSite(Parks[n].category, Parks[n].name,
                     Parks[n].city \o <<",", " ">> \o Parks[n].region,
                     Parks[n].zipcode, Parks[n].phone)]

\* C18: whenever the loop comes to the selection prompt, on the first listing
\* of the state page and on every later one, sites_list holds one site for
\* each link of the page, in the order of the links, and the list is printed
\* numbered in that order from 1; and a number k in 1..len(sites_list) typed
\* at the selection prompt calls get_nearby_with_cache, once, for the site of
\* the k-th link.
C18_DocumentOrder ==
    [][ /\ prompt' = "selection" => sites_list' = SitesInDocumentOrder
        /\ (TurnAt("state") /\ prompt' = "selection")
           => printed' = SitesPrinted(typed', SitesInDocumentOrder)
        /\ (TurnAt("selection") /\ IsSelection(typed', Len(sites_list)))
           => called' = <<CallOf("get_nearby_with_cache",
                                 SitesInDocumentOrder[DecimalValue(typed')])>> ]_vars

\* the second site was selected and the places near it were printed
C18_Witness ==
    /\ prompt = "selection"
    /\ typed = <<"2">>
    /\ called = <<CallOf("get_nearby_with_cache", SitesInDocumentOrder[2])>>
    /\ printed.kind = "places"
    /\ printed.lines = << <<"Places near ", "M", "i">>,
                          <<"-", " ", "near", "z2", " ", "(", "no category", ")", ":",
                            " ", "no address", ",", " ", "no city">> >>
    /\ sites_list = SitesInDocumentOrder
====
